---- MODULE Spec2Model ----
(***************************************************************************)
(* Model of CompletionManager.process_text_stream                          *)
(* (src/completion_manager.py, lines 133-205): the incremental             *)
(* segmentation of a stream of text fragments into sentences and marker    *)
(* delimited regions.                                                      *)
(*                                                                         *)
(* Strings are sequences of one-character strings.  The stream is the      *)
(* text `input', handed to the function in fragments of arbitrary length;  *)
(* `pos' is the number of characters handed over so far.  One action is    *)
(* one fragment arrival, one iteration of the per-fragment loop or one     *)
(* iteration of the end-of-stream loop.  `calls' is the log of callback    *)
(* invocations, each with the span [lo, hi] of full_text its argument was  *)
(* taken from and whether the callback raised, and `popped' the markers    *)
(* the end-of-stream loop removed.                                         *)
(***************************************************************************)
EXTENDS Integers, Sequences, FiniteSets, TLC

VARIABLES input, pos, empties, marker_tuples, sentence_callback,
          full_text, buffer, active_markers, pc, calls, popped, returned

vars == <<input, pos, empties, marker_tuples, sentence_callback,
          full_text, buffer, active_markers, pc, calls, popped, returned>>

----------------------------------------------------------------------------
(* Bounds *)

MaxLen == 4

MaxEmpty == 1

----------------------------------------------------------------------------
(* Values *)

None == "None"

SentenceCb == "sentence_callback"

MarkerCb == "marker_callback"

OtherCb == "other_callback"

Whitespace == {" ", "\n"}

Terminators == {".", "!", "?"}

Alphabet == {"a", ".", " ", "\n", "<", ">"}

Min(S) == CHOOSE x \in S : \A y \in S : x <= y

Max(S) == CHOOSE x \in S : \A y \in S : x >= y

----------------------------------------------------------------------------
(* String primitives used by the function *)

IsSpace(c) == c \in Whitespace

\* variant: only the trailing whitespace is removed
RStrip(s) ==
    LET solid == {i \in 1..Len(s) : ~IsSpace(s[i])}
    IN  IF solid = {} THEN <<>> ELSE SubSeq(s, 1, Max(solid))

\* str.strip(): the text without its leading and trailing whitespace
Strip(s) ==
    LET solid == {i \in 1..Len(s) : ~IsSpace(s[i])}
    IN  IF solid = {} THEN <<>> ELSE SubSeq(s, Min(solid), Max(solid))

\* number of whitespace characters str.strip() removes at the front
LeadingSpace(s) ==
    LET solid == {i \in 1..Len(s) : ~IsSpace(s[i])}
    IN  IF solid = {} THEN Len(s) ELSE Min(solid) - 1

\* str.find(): 1-based index of the first occurrence of sub in s, 0 if none
Find(sub, s) ==
    LET hits == {i \in 1..(Len(s) - Len(sub) + 1) :
                    SubSeq(s, i, i + Len(sub) - 1) = sub}
    IN  IF hits = {} THEN 0 ELSE Min(hits)

\* the `in' operator on strings
Contains(sub, s) == Find(sub, s) # 0

\* variant: the text after the separator starts one character after the
\* separator's first character
PartitionOneChar(s, sep) ==
    LET i == Find(sep, s)
    IN  [before |-> SubSeq(s, 1, i - 1),
         after  |-> SubSeq(s, i + 1, Len(s))]

\* str.partition(sep), for sep occurring in s: the text before the first
\* occurrence of sep and the text after it
Partition(s, sep) ==
    LET i == Find(sep, s)
    IN  [before |-> SubSeq(s, 1, i - 1),
         after  |-> SubSeq(s, i + Len(sep), Len(s))]

\* variant: a terminator counts only when a whitespace character follows
SentenceMatchLenNeedsSpace(buf) ==
    LET ends == {k \in 1..(Len(buf) - 1) :
                    /\ buf[k] \in Terminators
                    /\ IsSpace(buf[k + 1])}
    IN  IF ends # {}
        THEN Min(ends) + 1
        ELSE IF buf # <<>> /\ buf[1] = "\n" THEN 1 ELSE 0

\* variant: a greedy .* takes the longest prefix ending in a terminator
SentenceMatchLenGreedy(buf) ==
    LET ends == {k \in 1..Len(buf) :
                    /\ buf[k] \in Terminators
                    /\ (k = Len(buf) \/ IsSpace(buf[k + 1]))}
    IN  IF ends # {}
        THEN IF Max(ends) < Len(buf) THEN Max(ends) + 1 ELSE Max(ends)
        ELSE IF buf # <<>> /\ buf[1] = "\n" THEN 1 ELSE 0

\* sentence_pattern.match(buffer): the length of group 1, 0 when there is
\* no match.  First alternative: the shortest prefix (lazy .*? under
\* DOTALL) ending in a terminator that is followed by a whitespace
\* character, which is consumed, or by the end of the buffer.  Second
\* alternative, tried only when the first fails: a newline at position 1.
SentenceMatchLen(buf) ==
    LET ends == {k \in 1..Len(buf) :
                    /\ buf[k] \in Terminators
                    /\ (k = Len(buf) \/ IsSpace(buf[k + 1]))}
    IN  IF ends # {}
        THEN IF Min(ends) < Len(buf) THEN Min(ends) + 1 ELSE Min(ends)
        ELSE IF buf # <<>> /\ buf[1] = "\n" THEN 1 ELSE 0

----------------------------------------------------------------------------
(* Inputs: the streams and the arguments of a call *)

\* "<tag>secret</tag>rest of text."
TagInput ==
    <<"<", "t", "a", "g", ">", "s", "e", "c", "r", "e", "t", "<", "/", "t", "a", "g", ">", "r", "e", "s", "t", " ", "o", "f", " ", "t", "e", "x", "t", ".">>

\* "<tag>partial"
TagPartialInput ==
    <<"<", "t", "a", "g", ">", "p", "a", "r", "t", "i", "a", "l">>

\* "line one\nline two"
LinesInput ==
    <<"l", "i", "n", "e", " ", "o", "n", "e", "\n", "l", "i", "n", "e", " ", "t", "w", "o">>

\* "Hello world. How are you?"
HelloInput ==
    <<"H", "e", "l", "l", "o", " ", "w", "o", "r", "l", "d", ".", " ", "H", "o", "w", " ", "a", "r", "e", " ", "y", "o", "u", "?">>

ExampleInputs == {TagInput, TagPartialInput, LinesInput, HelloInput}

ShortInputs == UNION {[1..n -> Alphabet] : n \in 0..MaxLen}

Inputs == ExampleInputs \cup ShortInputs

MarkerSpec(start, end, callback) ==
    [start |-> start, end |-> end, callback |-> callback]

NoMarkers == <<>>

TagMarkers == <<MarkerSpec(<<"<", "t", "a", "g", ">">>, <<"<", "/", "t", "a", "g", ">">>, MarkerCb)>>

AngleMarkers == <<MarkerSpec(<<"<">>, <<">">>, MarkerCb)>>

AngleSilent == <<MarkerSpec(<<"<">>, <<">">>, None)>>

\* two specs whose start-tokens can both be in the buffer, in either order
PairMarkers == <<MarkerSpec(<<"<">>, <<">">>, MarkerCb),
                 MarkerSpec(<<">">>, <<"<">>, OtherCb)>>

\* the marker_tuples argument is paired with streams its tokens can occur in
Arguments ==
    (ExampleInputs \X {NoMarkers, TagMarkers, AngleMarkers})
        \cup (ShortInputs \X {NoMarkers, AngleMarkers, AngleSilent,
                               PairMarkers})

----------------------------------------------------------------------------
(* The function: process_text_stream *)

\* number of characters of full_text already removed from the buffer
Offset == Len(full_text) - Len(buffer)

\* one callback invocation: the callback, its argument, the span of
\* full_text the argument was cut from, and the loop that made the call
Call(callback, arg, lo, phase) ==
    [callback |-> callback, arg |-> arg, lo |-> lo,
     hi |-> lo + Len(arg) - 1, phase |-> phase]

\* variant: the buffer gets the fragment stripped
ConsumeStripped(text, buf, chunk) ==
    [full_text |-> text \o chunk, buffer |-> buf \o Strip(chunk)]

\* full_text += chunk; buffer += chunk
Consume(text, buf, chunk) ==
    [full_text |-> text \o chunk, buffer |-> buf \o chunk]

\* variant: the callback gets the enclosed text stripped
ProcessActiveMarkersStripped(buf, active, off) ==
    LET hits == {i \in 1..Len(active) :
                    /\ Contains(active[i].end, buf)
                    /\ Strip(Partition(buf, active[i].end).before) # <<>>}
    IN  IF hits = {}
        THEN [index |-> -1, call |-> <<>>, buffer |-> buf]
        ELSE LET i == Min(hits)
                 cut == Partition(buf, active[i].end)
             IN  [index  |-> i - 1,
                  call   |-> IF active[i].callback # None
                             THEN <<Call(active[i].callback,
                                         Strip(cut.before),
                                         off + LeadingSpace(cut.before) + 1,
                                         "stream")>>
                             ELSE <<>>,
                  buffer |-> cut.after]

\* process_active_markers(): the first active marker whose end-token is in
\* the buffer with non-blank text before it is closed; its callback, when
\* it has one, gets the text before the end-token.  index is -1 when no
\* marker was closed.
ProcessActiveMarkers(buf, active, off) ==
    LET hits == {i \in 1..Len(active) :
                    /\ Contains(active[i].end, buf)
                    /\ Strip(Partition(buf, active[i].end).before) # <<>>}
    IN  IF hits = {}
        THEN [index |-> -1, call |-> <<>>, buffer |-> buf]
        ELSE LET i == Min(hits)
                 cut == Partition(buf, active[i].end)
             IN  [index  |-> i - 1,
                  call   |-> IF active[i].callback # None
                             THEN <<Call(active[i].callback, cut.before,
                                         off + 1, "stream")>>
                             ELSE <<>>,
                  buffer |-> cut.after]

\* active_markers.pop(index), index counted from 0
Pop(active, index) ==
    SubSeq(active, 1, index) \o SubSeq(active, index + 2, Len(active))

\* variant: a marker is opened and the buffer left as it is
ProcessNewMarkersOrSentencesUncut(buf, markers, callback, off) ==
    LET starts == {i \in 1..Len(markers) : Contains(markers[i].start, buf)}
        n == SentenceMatchLen(buf)
        sentence == SubSeq(buf, 1, n)
    IN  IF starts # {}
        THEN [progress |-> TRUE,
              opened   |-> <<markers[Min(starts)]>>,
              call     |-> <<>>,
              buffer   |-> buf]
        ELSE IF n > 0
        THEN [progress |-> TRUE,
              opened   |-> <<>>,
              call     |-> IF callback # None /\ Strip(sentence) # <<>>
                           THEN <<Call(callback, Strip(sentence),
                                       off + LeadingSpace(sentence) + 1,
                                       "stream")>>
                           ELSE <<>>,
              buffer   |-> SubSeq(buf, n + 1, Len(buf))]
        ELSE [progress |-> FALSE, opened |-> <<>>, call |-> <<>>,
              buffer |-> buf]

\* variant: every spec whose start-token is in the buffer is opened
ProcessNewMarkersOrSentencesAll(buf, markers, callback, off) ==
    LET starts == {i \in 1..Len(markers) : Contains(markers[i].start, buf)}
        n == SentenceMatchLen(buf)
        sentence == SubSeq(buf, 1, n)
    IN  IF starts # {}
        THEN [progress |-> TRUE,
              opened   |-> SelectSeq(markers,
                                     LAMBDA m : Contains(m.start, buf)),
              call     |-> <<>>,
              buffer   |-> Partition(buf, markers[Min(starts)].start).after]
        ELSE IF n > 0
        THEN [progress |-> TRUE,
              opened   |-> <<>>,
              call     |-> IF callback # None /\ Strip(sentence) # <<>>
                           THEN <<Call(callback, Strip(sentence),
                                       off + LeadingSpace(sentence) + 1,
                                       "stream")>>
                           ELSE <<>>,
              buffer   |-> SubSeq(buf, n + 1, Len(buf))]
        ELSE [progress |-> FALSE, opened |-> <<>>, call |-> <<>>,
              buffer |-> buf]

\* variant: the spec whose start-token comes first in the buffer is opened
ProcessNewMarkersOrSentencesEarliest(buf, markers, callback, off) ==
    LET starts == {i \in 1..Len(markers) : Contains(markers[i].start, buf)}
        first == CHOOSE i \in starts : \A j \in starts :
                    Find(markers[i].start, buf) <= Find(markers[j].start, buf)
        n == SentenceMatchLen(buf)
        sentence == SubSeq(buf, 1, n)
    IN  IF starts # {}
        THEN [progress |-> TRUE,
              opened   |-> <<markers[first]>>,
              call     |-> <<>>,
              buffer   |-> Partition(buf, markers[first].start).after]
        ELSE IF n > 0
        THEN [progress |-> TRUE,
              opened   |-> <<>>,
              call     |-> IF callback # None /\ Strip(sentence) # <<>>
                           THEN <<Call(callback, Strip(sentence),
                                       off + LeadingSpace(sentence) + 1,
                                       "stream")>>
                           ELSE <<>>,
              buffer   |-> SubSeq(buf, n + 1, Len(buf))]
        ELSE [progress |-> FALSE, opened |-> <<>>, call |-> <<>>,
              buffer |-> buf]

\* variant: after a sentence the buffer is advanced by the length of the
\* stripped sentence
ProcessNewMarkersOrSentencesShort(buf, markers, callback, off) ==
    LET starts == {i \in 1..Len(markers) : Contains(markers[i].start, buf)}
        n == SentenceMatchLen(buf)
        sentence == SubSeq(buf, 1, n)
    IN  IF starts # {}
        THEN [progress |-> TRUE,
              opened   |-> <<markers[Min(starts)]>>,
              call     |-> <<>>,
              buffer   |-> Partition(buf, markers[Min(starts)].start).after]
        ELSE IF n > 0
        THEN [progress |-> TRUE,
              opened   |-> <<>>,
              call     |-> IF callback # None /\ Strip(sentence) # <<>>
                           THEN <<Call(callback, Strip(sentence),
                                       off + LeadingSpace(sentence) + 1,
                                       "stream")>>
                           ELSE <<>>,
              buffer   |-> SubSeq(buf, Len(Strip(sentence)) + 1, Len(buf))]
        ELSE [progress |-> FALSE, opened |-> <<>>, call |-> <<>>,
              buffer |-> buf]

\* process_new_markers_or_sentences(): the first marker spec, in the order
\* of marker_tuples, whose start-token is in the buffer is opened and the
\* buffer cut after the token; otherwise a sentence is matched at the
\* start of the buffer, passed stripped to the sentence callback when it
\* is non-blank, and the buffer advanced by the length of the match.
ProcessNewMarkersOrSentences(buf, markers, callback, off) ==
    LET starts == {i \in 1..Len(markers) : Contains(markers[i].start, buf)}
        n == SentenceMatchLen(buf)
        sentence == SubSeq(buf, 1, n)
    IN  IF starts # {}
        THEN [progress |-> TRUE,
              opened   |-> <<markers[Min(starts)]>>,
              call     |-> <<>>,
              buffer   |-> Partition(buf, markers[Min(starts)].start).after]
        ELSE IF n > 0
        THEN [progress |-> TRUE,
              opened   |-> <<>>,
              call     |-> IF callback # None /\ Strip(sentence) # <<>>
                           THEN <<Call(callback, Strip(sentence),
                                       off + LeadingSpace(sentence) + 1,
                                       "stream")>>
                           ELSE <<>>,
              buffer   |-> SubSeq(buf, n + 1, Len(buf))]
        ELSE [progress |-> FALSE, opened |-> <<>>, call |-> <<>>,
              buffer |-> buf]

\* variant: the buffer is passed as it is
FlushCallRaw(buf, callback, off) ==
    IF callback # None /\ Strip(buf) # <<>>
    THEN <<Call(callback, buf, off + 1, "flush")>>
    ELSE <<>>

\* variant: the buffer is dropped when the stream ends
FlushCallDiscard(buf, callback, off) == <<>>

\* the call the end-of-stream loop makes once no marker is active
FlushCall(buf, callback, off) ==
    IF callback # None /\ Strip(buf) # <<>>
    THEN <<Call(callback, Strip(buf), off + LeadingSpace(buf) + 1, "flush")>>
    ELSE <<>>

\* variant: the text left in the buffer is returned
ReturnBuffer(text, buf) == buf

\* variant: a blank stands in for an empty result
ReturnBlankIfEmpty(text, buf) == IF text = <<>> THEN <<" ">> ELSE text

\* return full_text
ReturnValue(text, buf) == text

\* the invocations of a step with their outcome: the callback returns or
\* raises
Invoke(call, raises) ==
    [i \in 1..Len(call) |->
        [callback |-> call[i].callback, arg |-> call[i].arg,
         lo |-> call[i].lo, hi |-> call[i].hi, phase |-> call[i].phase,
         raised |-> raises]]

\* variant: the exception is swallowed and the step carries on
ControlCaught(raises, next) == next

\* where control goes after a step: the function has no try/except, an
\* exception a callback raises leaves it
Control(raises, next) == IF raises THEN "raised" ELSE next

Init ==
    /\ \E a \in Arguments : input = a[1] /\ marker_tuples = a[2]
    /\ sentence_callback \in {None, SentenceCb}
    /\ pos = 0
    /\ empties = 0
    /\ full_text = <<>>
    /\ buffer = <<>>
    /\ active_markers = <<>>
    /\ pc = "fetch"
    /\ calls = <<>>
    /\ popped = <<>>
    /\ returned = None

\* for chunk in text_stream: the next fragment, k characters long, arrives
NextChunk(k) ==
    /\ pc = "fetch"
    /\ k \in 0..(Len(input) - pos)
    /\ k = 0 => empties < MaxEmpty
    /\ LET r == Consume(full_text, buffer, SubSeq(input, pos + 1, pos + k))
       IN  /\ full_text' = r.full_text
           /\ buffer' = r.buffer
    /\ pos' = pos + k
    /\ empties' = IF k = 0 THEN empties + 1 ELSE empties
    /\ pc' = "loop"
    /\ UNCHANGED <<input, marker_tuples, sentence_callback, active_markers,
                   calls, popped, returned>>

\* while buffer: ... with a marker active.  The callback's exception, when
\* it raises, leaves the function before the buffer is assigned.
DrainMarkers(raises) ==
    /\ pc = "loop"
    /\ buffer # <<>>
    /\ active_markers # <<>>
    /\ LET r == ProcessActiveMarkers(buffer, active_markers, Offset)
       IN  /\ raises => r.call # <<>>
           /\ calls' = calls \o Invoke(r.call, raises)
           /\ pc' = Control(raises, IF r.index >= 0 THEN "loop" ELSE "fetch")
           /\ IF raises
              THEN UNCHANGED <<buffer, active_markers>>
              ELSE /\ buffer' = r.buffer
                   /\ active_markers' = IF r.index >= 0
                                        THEN Pop(active_markers, r.index)
                                        ELSE active_markers
    /\ UNCHANGED <<input, pos, empties, marker_tuples, sentence_callback,
                   full_text, popped, returned>>

\* variant: the buffer is scanned whether or not a marker is active
ScanBufferAlways(raises) ==
    /\ pc = "loop"
    /\ buffer # <<>>
    /\ LET r == ProcessNewMarkersOrSentences(buffer, marker_tuples,
                                             sentence_callback, Offset)
       IN  /\ raises => r.call # <<>>
           /\ calls' = calls \o Invoke(r.call, raises)
           /\ pc' = Control(raises, IF r.progress THEN "loop" ELSE "fetch")
           /\ IF raises
              THEN UNCHANGED <<buffer, active_markers>>
              ELSE /\ buffer' = r.buffer
                   /\ active_markers' = active_markers \o r.opened
    /\ UNCHANGED <<input, pos, empties, marker_tuples, sentence_callback,
                   full_text, popped, returned>>

\* while buffer: ... with no marker active
ScanBuffer(raises) ==
    /\ pc = "loop"
    /\ buffer # <<>>
    /\ active_markers = <<>>
    /\ LET r == ProcessNewMarkersOrSentences(buffer, marker_tuples,
                                             sentence_callback, Offset)
       IN  /\ raises => r.call # <<>>
           /\ calls' = calls \o Invoke(r.call, raises)
           /\ pc' = Control(raises, IF r.progress THEN "loop" ELSE "fetch")
           /\ IF raises
              THEN UNCHANGED <<buffer, active_markers>>
              ELSE /\ buffer' = r.buffer
                   /\ active_markers' = active_markers \o r.opened
    /\ UNCHANGED <<input, pos, empties, marker_tuples, sentence_callback,
                   full_text, popped, returned>>

\* while buffer: is false, the fragment is done
BufferEmpty ==
    /\ pc = "loop"
    /\ buffer = <<>>
    /\ pc' = "fetch"
    /\ UNCHANGED <<input, pos, empties, marker_tuples, sentence_callback,
                   full_text, buffer, active_markers, calls, popped,
                   returned>>

\* text_stream is exhausted
EndOfStream ==
    /\ pc = "fetch"
    /\ pos = Len(input)
    /\ pc' = "flush"
    /\ UNCHANGED <<input, pos, empties, marker_tuples, sentence_callback,
                   full_text, buffer, active_markers, calls, popped,
                   returned>>

\* end-of-stream loop, a marker is active: active_markers.pop(0)
FlushPop ==
    /\ pc = "flush"
    /\ buffer # <<>>
    /\ active_markers # <<>>
    /\ active_markers' = Pop(active_markers, 0)
    /\ popped' = Append(popped, active_markers[1])
    /\ UNCHANGED <<input, pos, empties, marker_tuples, sentence_callback,
                   full_text, buffer, pc, calls, returned>>

\* end-of-stream loop, no marker active: the rest of the buffer goes to
\* the sentence callback, break, return full_text
FlushEmit(raises) ==
    /\ pc = "flush"
    /\ buffer # <<>>
    /\ active_markers = <<>>
    /\ LET c == FlushCall(buffer, sentence_callback, Offset)
       IN  /\ raises => c # <<>>
           /\ calls' = calls \o Invoke(c, raises)
    /\ pc' = Control(raises, "done")
    /\ returned' = IF raises THEN returned
                   ELSE ReturnValue(full_text, buffer)
    /\ UNCHANGED <<input, pos, empties, marker_tuples, sentence_callback,
                   full_text, buffer, active_markers, popped>>

\* end-of-stream loop with an empty buffer: return full_text
FlushNothing ==
    /\ pc = "flush"
    /\ buffer = <<>>
    /\ pc' = "done"
    /\ returned' = ReturnValue(full_text, buffer)
    /\ UNCHANGED <<input, pos, empties, marker_tuples, sentence_callback,
                   full_text, buffer, active_markers, calls, popped>>

Next ==
    \/ \E k \in 0..(Len(input) - pos) : NextChunk(k)
    \/ \E raises \in BOOLEAN : DrainMarkers(raises)
    \/ \E raises \in BOOLEAN : ScanBuffer(raises)
    \/ BufferEmpty
    \/ EndOfStream
    \/ \E raises \in BOOLEAN : FlushEmit(raises)
    \/ FlushPop
    \/ FlushNothing

Spec == Init /\ [][Next]_vars

----------------------------------------------------------------------------
(* Properties *)

\* the arguments of the invocations of one callback, in order
ArgsTo(callback) ==
    LET to == SelectSeq(calls, LAMBDA c : c.callback = callback)
    IN  [i \in 1..Len(to) |-> to[i].arg]

\* the invocations made by the end-of-stream loop
FlushCalls == SelectSeq(calls, LAMBDA c : c.phase = "flush")

IsPrefix(s, t) == Len(s) <= Len(t) /\ s = SubSeq(t, 1, Len(s))

\* C1: the text accumulated is at every step the concatenation of the
\* fragments received so far, whatever was removed from the buffer or
\* passed to callbacks, and the value returned is the concatenation of
\* all fragments of the stream.
C1_ReturnsConcatenation ==
    /\ full_text = SubSeq(input, 1, pos)
    /\ pc = "done" => returned = input

C1_Witness ==
    /\ pc = "done"
    /\ input = TagInput
    /\ marker_tuples = TagMarkers
    /\ Len(calls) = 2
    /\ buffer # full_text
    /\ returned = TagInput

\* C2: on "<tag>secret</tag>rest of text." with the marker spec
\* ("<tag>", "</tag>", cb), split into fragments in any way, cb is invoked
\* once, with "secret", the sentence callback receives "rest of text.",
\* and no callback argument contains "<tag>" or "</tag>".
C2_TagExample ==
    (input = TagInput /\ marker_tuples = TagMarkers) =>
        /\ \A i \in 1..Len(calls) :
              /\ ~Contains(TagMarkers[1].start, calls[i].arg)
              /\ ~Contains(TagMarkers[1].end, calls[i].arg)
        /\ IsPrefix(ArgsTo(MarkerCb), <<<<"s", "e", "c", "r", "e", "t">>>>)
        /\ IsPrefix(ArgsTo(SentenceCb), <<<<"r", "e", "s", "t", " ", "o", "f", " ", "t", "e", "x", "t", ".">>>>)
        /\ pc = "done" =>
              /\ ArgsTo(MarkerCb) = <<<<"s", "e", "c", "r", "e", "t">>>>
              /\ sentence_callback = SentenceCb =>
                    ArgsTo(SentenceCb) = <<<<"r", "e", "s", "t", " ", "o", "f", " ", "t", "e", "x", "t", ".">>>>

C2_Witness ==
    /\ pc = "done"
    /\ input = TagInput
    /\ marker_tuples = TagMarkers
    /\ sentence_callback = SentenceCb
    /\ empties = 1
    /\ Len(calls) = 2
    /\ calls[1].callback = MarkerCb
    /\ calls[2].callback = SentenceCb

\* C3: on "line one\nline two" with no markers the sentence callback is
\* invoked twice, with "line one" and then with "line two".
C3_NewlineEndsSentence ==
    (/\ pc = "done"
     /\ input = LinesInput
     /\ marker_tuples = NoMarkers
     /\ sentence_callback = SentenceCb) =>
        ArgsTo(SentenceCb) = <<<<"l", "i", "n", "e", " ", "o", "n", "e">>,
                               <<"l", "i", "n", "e", " ", "t", "w", "o">>>>

\* C4: when the end-token of the oldest active marker is in the buffer and
\* the text before it is blank, the step of the per-fragment loop invokes
\* no callback, removes the marker from the active list and sets the
\* buffer to the text after the end-token.
C4_BlankMarkerCloses ==
    [][(/\ pc = "loop"
        /\ buffer # <<>>
        /\ active_markers # <<>>
        /\ Contains(active_markers[1].end, buffer)
        /\ Strip(Partition(buffer, active_markers[1].end).before) = <<>>)
       => (/\ calls' = calls
           /\ active_markers' = Tail(active_markers)
           /\ buffer' = Partition(buffer, active_markers[1].end).after)]_vars

\* the markers still open when the function returned: those the
\* end-of-stream loop removed and those it left
OpenAtEnd == popped \o active_markers

\* C5: when the stream ends with a marker active whose end-token is not in
\* the buffer, the end-of-stream loop invokes no marker callback, the
\* sentence callback (when there is one and the buffer is not blank)
\* receives the buffer trimmed, and the consumed start-token lies in no
\* callback argument.  On "<tag>partial" the marker callback is never
\* invoked and the sentence callback receives "partial".
C5_UnterminatedMarkerFlushed ==
    /\ (/\ pc = "done"
        /\ OpenAtEnd # <<>>
        /\ \A i \in 1..Len(OpenAtEnd) : ~Contains(OpenAtEnd[i].end, buffer))
       => LET token == OpenAtEnd[1].start
          IN  /\ \A i \in 1..Len(FlushCalls) :
                      FlushCalls[i].callback = SentenceCb
              /\ [i \in 1..Len(FlushCalls) |-> FlushCalls[i].arg]
                    = IF sentence_callback # None /\ Strip(buffer) # <<>>
                      THEN <<Strip(buffer)>> ELSE <<>>
              /\ SubSeq(full_text, Offset - Len(token) + 1, Offset) = token
              /\ \A i \in 1..Len(calls) :
                      IF calls[i].phase = "flush"
                      THEN calls[i].lo > Offset
                      ELSE calls[i].hi <= Offset - Len(token)
    /\ (/\ pc = "done"
        /\ input = TagPartialInput
        /\ marker_tuples = TagMarkers)
       => /\ ArgsTo(MarkerCb) = <<>>
          /\ sentence_callback = SentenceCb =>
                ArgsTo(SentenceCb) = <<<<"p", "a", "r", "t", "i", "a", "l">>>>

C5_Witness ==
    /\ pc = "done"
    /\ input = TagPartialInput
    /\ marker_tuples = TagMarkers
    /\ popped = TagMarkers
    /\ Len(calls) = 1
    /\ calls[1].phase = "flush"
    /\ calls[1].arg = <<"p", "a", "r", "t", "i", "a", "l">>

\* C6 as stated: after the end-of-stream loop has removed an active marker,
\* no callback has received text buffered behind its start-token.
C6_UnterminatedDiscarded ==
    (pc = "done" /\ popped # <<>>) =>
        \A i \in 1..Len(calls) : calls[i].hi <= Offset

\* C6 amended: the end-of-stream loop removes the active marker without
\* invoking its callback, and the text buffered behind the start-token is
\* passed, trimmed, to the sentence callback in one last invocation when
\* there is a sentence callback and the text is not blank; only otherwise
\* does no callback receive it.
C6_UnterminatedPassedOn ==
    (pc = "done" /\ popped # <<>>) =>
        LET behind == {i \in 1..Len(calls) : calls[i].hi > Offset}
        IN  /\ active_markers = <<>>
            /\ behind # {} <=>
                  (sentence_callback # None /\ Strip(buffer) # <<>>)
            /\ \A i \in behind :
                  /\ i = Len(calls)
                  /\ calls[i].callback = SentenceCb
                  /\ calls[i].arg = Strip(buffer)

C6_Witness ==
    /\ pc = "done"
    /\ popped = AngleMarkers
    /\ sentence_callback = SentenceCb
    /\ calls # <<>>
    /\ calls[Len(calls)].phase = "flush"
    /\ calls[Len(calls)].arg = Strip(buffer)
    /\ Len(buffer) > Len(Strip(buffer))

\* C7: every argument the sentence callback is invoked with is non-empty
\* and neither starts nor ends with a whitespace character.
C7_SentenceArgsTrimmed ==
    \A i \in 1..Len(calls) :
        calls[i].callback = SentenceCb =>
            /\ calls[i].arg # <<>>
            /\ ~IsSpace(calls[i].arg[1])
            /\ ~IsSpace(calls[i].arg[Len(calls[i].arg)])

C7_Witness ==
    /\ pc = "done"
    /\ \E i, j \in 1..Len(calls) :
          /\ calls[i].callback = SentenceCb
          /\ calls[i].phase = "stream"
          /\ calls[i].lo > 1
          /\ IsSpace(full_text[calls[i].lo - 1])
          /\ calls[j].callback = SentenceCb
          /\ calls[j].phase = "flush"
          /\ calls[j].hi < Len(full_text)
          /\ IsSpace(full_text[calls[j].hi + 1])

\* C8: the argument of every callback invocation is a non-empty stretch of
\* the text received so far, and the stretch of each invocation starts
\* after the end of the stretch of every earlier invocation.
C8_CallbacksInInputOrder ==
    /\ \A i \in 1..Len(calls) :
          /\ 1 <= calls[i].lo
          /\ calls[i].lo <= calls[i].hi
          /\ calls[i].hi <= Len(full_text)
          /\ calls[i].arg = SubSeq(full_text, calls[i].lo, calls[i].hi)
    /\ \A i, j \in 1..Len(calls) :
          i < j => calls[i].hi < calls[j].lo

C8_Witness ==
    /\ pc = "done"
    /\ Len(calls) = 2
    /\ calls[1].callback = SentenceCb
    /\ calls[2].callback = MarkerCb

\* C9: on "Hello world. How are you?" with no markers, split into
\* fragments in any way, the sentence callback is invoked twice, with
\* "Hello world." and then with "How are you?".
C9_HelloExample ==
    (/\ input = HelloInput
     /\ marker_tuples = NoMarkers) =>
        LET expected == <<<<"H", "e", "l", "l", "o", " ", "w", "o", "r", "l", "d", ".">>,
                          <<"H", "o", "w", " ", "a", "r", "e", " ", "y", "o", "u", "?">>>>
        IN  /\ \A i \in 1..Len(calls) : calls[i].callback = SentenceCb
            /\ IsPrefix(ArgsTo(SentenceCb), expected)
            /\ (pc = "done" /\ sentence_callback = SentenceCb) =>
                  ArgsTo(SentenceCb) = expected

C9_Witness ==
    /\ pc = "done"
    /\ input = HelloInput
    /\ marker_tuples = NoMarkers
    /\ empties = 1
    /\ Len(calls) = 2
    /\ calls[2].phase = "stream"

\* C10: an invocation that raised is the last invocation and leaves the
\* function in its raised state; from there no callback is invoked, no
\* fragment is consumed and nothing is returned.
C10_CallbackExceptionPropagates ==
    /\ [](\A i \in 1..Len(calls) :
             calls[i].raised => (i = Len(calls) /\ pc = "raised"))
    /\ [](pc = "raised" =>
             /\ returned = None
             /\ calls # <<>>
             /\ calls[Len(calls)].raised)
    /\ [][pc = "raised" =>
             /\ pc' = "raised"
             /\ calls' = calls
             /\ pos' = pos
             /\ full_text' = full_text
             /\ returned' = returned]_vars

C10_Witness ==
    /\ pc = "raised"
    /\ pos < Len(input)
    /\ buffer # <<>>
    /\ Len(calls) = 2
    /\ ~calls[1].raised
    /\ calls[2].raised
    /\ returned = None

\* C11: when the stream has no fragment at all, the function returns the
\* empty string and has invoked no callback.
C11_EmptyStream ==
    (pc = "done" /\ input = <<>> /\ empties = 0) =>
        /\ returned = <<>>
        /\ calls = <<>>

C11_Witness ==
    /\ pc = "done"
    /\ input = <<>>
    /\ empties = 0
    /\ marker_tuples = AngleMarkers
    /\ sentence_callback = SentenceCb
    /\ returned = <<>>

\* the specs of marker_tuples whose start-token is in the buffer
StartsInBuffer ==
    {i \in 1..Len(marker_tuples) : Contains(marker_tuples[i].start, buffer)}

\* C12: an iteration of the per-fragment loop with no marker active and a
\* start-token in the buffer opens the first spec, in the order of
\* marker_tuples, whose start-token is in the buffer, wherever the token
\* is; it invokes no callback and leaves in the buffer the text after the
\* first occurrence of that token.  No invocation ever receives text
\* that has left the buffer.
C12_FirstSpecInOrderOpens ==
    /\ [][(/\ pc = "loop"
            /\ buffer # <<>>
            /\ active_markers = <<>>
            /\ StartsInBuffer # {})
           => LET first == marker_tuples[Min(StartsInBuffer)]
                  at == Find(first.start, buffer)
              IN  /\ active_markers' = <<first>>
                  /\ calls' = calls
                  /\ buffer' = SubSeq(buffer, at + Len(first.start),
                                      Len(buffer))]_vars
    /\ [][/\ Offset' >= Offset
           /\ \A i \in (Len(calls) + 1)..Len(calls') :
                  calls'[i].lo > Offset]_vars

C12_Witness ==
    /\ marker_tuples = PairMarkers
    /\ sentence_callback = SentenceCb
    /\ active_markers = <<PairMarkers[1]>>
    /\ calls = <<>>
    /\ buffer = <<>>
    /\ SentenceMatchLen(full_text) > 0
    /\ Find(PairMarkers[2].start, full_text) # 0
    /\ Find(PairMarkers[2].start, full_text)
          < Find(PairMarkers[1].start, full_text)

\* C13: an iteration of the per-fragment loop with a marker active, its
\* end-token in the buffer and non-blank text before the token's first
\* occurrence invokes the marker's callback, when the spec has one, once
\* with that text as it is, and no other callback; unless the callback
\* raises, the buffer becomes the text after the end-token and the marker
\* leaves the active list.
C13_MarkerCloses ==
    [][(/\ pc = "loop"
        /\ buffer # <<>>
        /\ active_markers # <<>>
        /\ Find(active_markers[1].end, buffer) # 0
        /\ \E k \in 1..(Find(active_markers[1].end, buffer) - 1) :
               ~IsSpace(buffer[k]))
       => LET marker == active_markers[1]
              at == Find(marker.end, buffer)
              enclosed == SubSeq(buffer, 1, at - 1)
          IN  /\ Len(calls') = Len(calls)
                    + (IF marker.callback = None THEN 0 ELSE 1)
              /\ marker.callback # None =>
                    /\ calls'[Len(calls')].callback = marker.callback
                    /\ calls'[Len(calls')].arg = enclosed
              /\ pc' # "raised" =>
                    /\ buffer' = SubSeq(buffer, at + Len(marker.end),
                                        Len(buffer))
                    /\ active_markers' = Tail(active_markers)
                    /\ pc' = "loop"]_vars

C13_Witness ==
    /\ pc = "loop"
    /\ active_markers = <<>>
    /\ popped = <<>>
    /\ Len(calls) = 1
    /\ calls[1].callback = MarkerCb
    /\ IsSpace(calls[1].arg[1])
    /\ ~calls[1].raised
    /\ Offset = calls[1].hi + Len(marker_tuples[1].end)

\* C14: a step that invokes the sentence callback starts with no marker
\* active, and so does a step that adds a marker to the active list.
C14_NothingWhileMarkerActive ==
    /\ [][(\E i \in (Len(calls) + 1)..Len(calls') :
               calls'[i].callback = SentenceCb)
           => active_markers = <<>>]_vars
    /\ [][Len(active_markers') > Len(active_markers)
           => active_markers = <<>>]_vars

C14_Witness ==
    /\ pc = "fetch"
    /\ pos = Len(input)
    /\ sentence_callback = SentenceCb
    /\ marker_tuples = PairMarkers
    /\ active_markers = <<PairMarkers[1]>>
    /\ calls = <<>>
    /\ SentenceMatchLen(buffer) > 0
    /\ Contains(PairMarkers[2].start, buffer)

\* the positions of the buffer holding a terminator that is followed by a
\* whitespace character or is the last character of the buffer
SentenceEnds ==
    {k \in 1..Len(buffer) :
        /\ buffer[k] = "." \/ buffer[k] = "!" \/ buffer[k] = "?"
        /\ k = Len(buffer) \/ buffer[k + 1] = " " \/ buffer[k + 1] = "\n"}

\* C15: an iteration of the per-fragment loop with no marker active, no
\* start-token in the buffer and a terminator followed by whitespace or
\* by the end of the buffer takes the prefix up to the first such
\* terminator, with the whitespace character after it when there is one:
\* the sentence callback, when there is one, gets the prefix trimmed,
\* and unless it raises the buffer loses exactly that prefix.  Text that
\* left the buffer never comes back.
C15_EagerShortestSentence ==
    /\ [][(/\ pc = "loop"
            /\ buffer # <<>>
            /\ active_markers = <<>>
            /\ StartsInBuffer = {}
            /\ SentenceEnds # {})
           => LET k == Min(SentenceEnds)
                  n == IF k < Len(buffer) THEN k + 1 ELSE k
                  solid == {j \in 1..k : ~IsSpace(buffer[j])}
              IN  /\ Len(calls') = Len(calls)
                        + (IF sentence_callback = None THEN 0 ELSE 1)
                  /\ sentence_callback # None =>
                        /\ calls'[Len(calls')].callback = SentenceCb
                        /\ calls'[Len(calls')].arg
                              = SubSeq(buffer, Min(solid), k)
                  /\ pc' # "raised" =>
                        /\ buffer' = SubSeq(buffer, n + 1, Len(buffer))
                        /\ pc' = "loop"]_vars
    /\ [][Len(full_text') - Len(buffer') >= Offset]_vars

C15_Witness ==
    /\ pc = "done"
    /\ marker_tuples = NoMarkers
    /\ Len(calls) = 2
    /\ calls[1].hi + 1 = calls[2].lo
    /\ full_text[calls[2].lo] \in Terminators
    /\ calls[2].phase = "stream"

\* C16: the buffer is always the end of full_text, and a step that
\* changes one of the two either appends one fragment to both or takes a
\* non-empty prefix off the buffer and leaves full_text alone.
C16_BufferIsSuffix ==
    /\ [](/\ Len(buffer) <= Len(full_text)
           /\ buffer = SubSeq(full_text, Len(full_text) - Len(buffer) + 1,
                              Len(full_text)))
    /\ [][\/ /\ buffer' = buffer
             /\ full_text' = full_text
          \/ \E n \in 0..(Len(input) - pos) :
                /\ full_text' = full_text \o SubSeq(input, pos + 1, pos + n)
                /\ buffer' = buffer \o SubSeq(input, pos + 1, pos + n)
          \/ \E m \in 1..Len(buffer) :
                /\ full_text' = full_text
                /\ buffer' = SubSeq(buffer, m + 1, Len(buffer))]_vars

C16_Witness ==
    /\ pc = "fetch"
    /\ buffer # <<>>
    /\ Len(buffer) < Len(full_text)
    /\ active_markers # <<>>
    /\ Len(calls) = 1
    /\ calls[1].callback = MarkerCb
    /\ calls[1].hi < Offset

\* C17: when the function waits for the next fragment, no rule applies to
\* the buffer: the end-token of an active marker is not in it, and with
\* no marker active it holds no start-token and the sentence pattern does
\* not match it.
C17_BlockedMeansNoMatch ==
    pc = "fetch" =>
        IF active_markers # <<>>
        THEN \A i \in 1..Len(active_markers) :
                ~Contains(active_markers[i].end, buffer)
        ELSE /\ StartsInBuffer = {}
             /\ SentenceMatchLen(buffer) = 0

\* the fragments the stream can still deliver
Remaining == (Len(input) - pos) + (MaxEmpty - empties)

\* a bound on the steps the function can still take: the iterations left
\* for the fragment at hand, for every fragment to come and for the
\* end-of-stream loop
StepsLeft ==
    LET width == Len(input) + 4
    IN  CASE pc = "fetch" -> 2 * width * Remaining + width
          [] pc = "loop"  -> 2 * width * Remaining + width + 1 + Len(buffer)
          [] pc = "flush" -> 1 + Len(active_markers)
          [] OTHER        -> 0

\* C18: the function ends.  Every step lowers a bound on the steps left,
\* which is a natural number; waiting for a fragment, leaving the
\* per-fragment loop and the end-of-stream loop can always take their
\* step, and the function ends by returning unless a callback raised.  An iteration of the per-fragment loop that goes on to
\* another iteration has shortened the buffer, and an iteration of the
\* end-of-stream loop leaves the loop or removes one active marker.
C18_Terminates ==
    /\ [](StepsLeft >= 0)
    /\ [][StepsLeft' < StepsLeft]_vars
    /\ [](pc = "fetch" => ENABLED NextChunk(1) \/ ENABLED EndOfStream)
    /\ [](pc = "flush" =>
             \/ ENABLED FlushPop
             \/ ENABLED FlushEmit(FALSE)
             \/ ENABLED FlushNothing)
    /\ []((pc = "loop" /\ buffer = <<>>) => ENABLED BufferEmpty)
    /\ [](pc = "raised" => \E i \in 1..Len(calls) : calls[i].raised)
    /\ [][(pc = "loop" /\ pc' = "loop")
           => Len(buffer') < Len(buffer)]_vars
    /\ [][pc = "flush"
           => \/ pc' # "flush"
              \/ Len(active_markers') = Len(active_markers) - 1]_vars

C18_Witness ==
    /\ pc = "done"
    /\ returned = input
    /\ empties > 0
    /\ popped # <<>>
    /\ Len(calls) = 2
    /\ \A i \in 1..Len(calls) : ~calls[i].raised

\* C19: the active list never holds more than one marker, and it grows
\* only from empty, by one marker.
C19_AtMostOneActive ==
    /\ [](Len(active_markers) <= 1)
    /\ [][Len(active_markers') > Len(active_markers)
           => /\ active_markers = <<>>
              /\ Len(active_markers') = 1]_vars

C19_Witness ==
    /\ pc = "fetch"
    /\ marker_tuples = PairMarkers
    /\ active_markers = <<PairMarkers[2]>>
    /\ Contains(PairMarkers[1].start, buffer)
    /\ Contains(PairMarkers[2].start, buffer)

====
